---- MODULE Spec2Model ----
(***************************************************************************)
(* A model of the extraction functions of the web-scraping examples:       *)
(*   examples/04_table_scraping.py   extract_table_data, table_to_dict_list *)
(*   examples/03_links_and_images.py extract_all_links, extract_all_images, *)
(*                                   categorize_links                      *)
(*   examples/01_basic_scraping.py   extract_title, extract_all_paragraphs, *)
(*                                   extract_all_headings                  *)
(*   examples/02_css_selectors.py    select_by_tag, select_by_id,          *)
(*                                   select_nested_elements,               *)
(*                                   select_direct_children                *)
(*   examples/05_advanced_techniques.py extract_metadata, the fetch        *)
(*                                   functions, scrape_with_rate_limiting  *)
(* A str is a sequence of one-character strings, so that str.strip() and   *)
(* the f-string "Column_{i+1}" are computed and not assumed.  A bs4 Tag is *)
(* a record [name, attrs, string, contents, sourcepos]; find and find_all  *)
(* walk the tree in document order.                                        *)
(* urljoin and urlparse of urllib.parse are computed on the characters of  *)
(* the URL; a call that raises has the exception as its value.             *)
(***************************************************************************)
EXTENDS Integers, Sequences, FiniteSets, TLC

VARIABLES soup, op, arg, ret, attempts, results, log, pc

vars == <<soup, op, arg, ret, attempts, results, log, pc>>

\* the state of a request and of the loop of scrape_with_rate_limiting:
\* the answers the network gave to the attempts of the last request, the
\* list the loop appends to, the fetches and the sleeps made so far, and
\* where the loop stands
fetchvars == <<attempts, results, log, pc>>

\* Python's None where a Tag is looked for: no Tag equals it
None == [name |-> "None"]

\* Python's None where a str is looked for: no sequence of characters
\* equals it
NoneStr == (0 :> "None")

\* the exception a call ends with instead of returning a str, a tuple or a
\* list: no sequence equals it
ValueError == (0 :> "ValueError")

----------------------------------------------------------------------------
(* str helpers *)

\* the characters str.strip() removes
Whitespace == {" ", "\n", "\t"}

RECURSIVE LStrip(_)
LStrip(s) ==
    IF s # <<>> /\ Head(s) \in Whitespace THEN LStrip(Tail(s)) ELSE s

RECURSIVE RStrip(_)
RStrip(s) ==
    IF s # <<>> /\ s[Len(s)] \in Whitespace
    THEN RStrip(SubSeq(s, 1, Len(s) - 1))
    ELSE s

\* str.strip()
Strip(s) == RStrip(LStrip(s))

Digits == <<"0", "1", "2", "3", "4", "5", "6", "7", "8", "9">>

\* str(n) for n >= 0
RECURSIVE IntToStr(_)
IntToStr(n) ==
    IF n < 10 THEN <<Digits[n + 1]>>
    ELSE IntToStr(n \div 10) \o <<Digits[(n % 10) + 1]>>

\* the concatenation of a sequence of sequences
RECURSIVE Flatten(_)
Flatten(ss) == IF ss = <<>> THEN <<>> ELSE Head(ss) \o Flatten(Tail(ss))

----------------------------------------------------------------------------
(* bs4 Tag *)

NoAttrs == [a \in {} |-> <<>>]

Tag(name, attrs, string, contents, sourcepos) ==
    [name |-> name, attrs |-> attrs, string |-> string,
     contents |-> contents, sourcepos |-> sourcepos]

\* Tag.descendants: every element below e, in document order
RECURSIVE Descendants(_)
Descendants(e) ==
    Flatten([i \in 1..Len(e.contents) |->
                <<e.contents[i]>> \o Descendants(e.contents[i])])

\* Tag.find_all(names)
FindAll(e, names) == SelectSeq(Descendants(e), LAMBDA d : d.name \in names)

\* Tag.find(name): the first match, or None
Find(e, name) ==
    LET found == FindAll(e, {name})
    IN  IF found = <<>> THEN None ELSE found[1]

\* Tag.text: the element's own text followed by its descendants' text
RECURSIVE Text(_)
Text(e) ==
    e.string \o Flatten([i \in 1..Len(e.contents) |-> Text(e.contents[i])])

\* Tag.get(key, default)
Get(e, key, default) ==
    IF key \in DOMAIN e.attrs THEN e.attrs[key] ELSE default

----------------------------------------------------------------------------
(* examples/04_table_scraping.py *)

\* headers, lines 43-52: the th cells of the first thead, else of the first tr
table_headers(table) ==
    LET header_row == Find(table, "thead")
        first_row  == Find(table, "tr")
        ThText(e)  == LET ths == FindAll(e, {"th"})
                      IN  [i \in 1..Len(ths) |-> Strip(Text(ths[i]))]
    IN  IF header_row # None THEN ThText(header_row)
        ELSE IF first_row # None THEN ThText(first_row)
        ELSE <<>>

\* table_rows that never looks for a tbody
table_rows_no_tbody(table, headers) ==
    LET all == FindAll(table, {"tr"})
    IN  IF headers # <<>> THEN SubSeq(all, 2, Len(all)) ELSE all

\* table_rows, lines 56-64: the rows of the first tbody, else every tr of the
\* table, without the first one when headers were found
table_rows(table, headers) ==
    LET tbody == Find(table, "tbody")
        all   == FindAll(table, {"tr"})
    IN  IF tbody # None THEN FindAll(tbody, {"tr"})
        ELSE IF headers # <<>> THEN SubSeq(all, 2, Len(all))
        ELSE all

\* row_data that reads the td cells only
row_data_td_only(row) ==
    LET cells == FindAll(row, {"td"})
    IN  [i \in 1..Len(cells) |-> Strip(Text(cells[i]))]

\* row_data, lines 67-68
row_data(row) ==
    LET cells == FindAll(row, {"td", "th"})
    IN  [i \in 1..Len(cells) |-> Strip(Text(cells[i]))]

\* the loop of lines 66-70: only non-empty rows are appended
RECURSIVE collect_rows(_)
collect_rows(trs) ==
    IF trs = <<>> THEN <<>>
    ELSE IF row_data(Head(trs)) # <<>>
         THEN <<row_data(Head(trs))>> \o collect_rows(Tail(trs))
         ELSE collect_rows(Tail(trs))

extract_table_data(table) ==
    LET headers == table_headers(table)
    IN  [headers |-> headers,
         rows    |-> collect_rows(table_rows(table, headers))]

s_Column_ == <<"C", "o", "l", "u", "m", "n", "_">>

\* column_key that numbers the synthesized keys from 0
column_key_from_0(headers, i) ==
    IF i < Len(headers) THEN headers[i + 1] ELSE s_Column_ \o IntToStr(i)

\* line 142, for the 0-based cell index i
column_key(headers, i) ==
    IF i < Len(headers) THEN headers[i + 1] ELSE s_Column_ \o IntToStr(i + 1)

\* row_dict[key] = value
DictSet(d, key, value) ==
    [k \in DOMAIN d \cup {key} |-> IF k = key THEN value ELSE d[k]]

\* the inner loop of lines 139-143, from the 0-based index i on
RECURSIVE row_dict(_, _, _, _)
row_dict(headers, row, i, d) ==
    IF i >= Len(row) THEN d
    ELSE row_dict(headers, row, i + 1,
                  DictSet(d, column_key(headers, i), row[i + 1]))

table_to_dict_list(table_data) ==
    IF table_data.headers = <<>> \/ table_data.rows = <<>> THEN <<>>
    ELSE [k \in 1..Len(table_data.rows) |->
            row_dict(table_data.headers, table_data.rows[k], 0, <<>>)]

----------------------------------------------------------------------------
(* urllib.parse, as examples/03_links_and_images.py uses it (line 9).  A   *)
(* URL is a str; the references of the pages below hold no whitespace and  *)
(* no ';', so lstrip and params do not apply to them.  A call that raises  *)
(* has the value ValueError.                                               *)

\* str.find(c) + 1: the index of the first c in s, 0 when there is none
IndexOf(s, c) ==
    IF \E i \in 1..Len(s) : s[i] = c
    THEN CHOOSE i \in 1..Len(s) : s[i] = c /\ \A k \in 1..(i - 1) : s[k] # c
    ELSE 0

\* s[:n]
Prefix(s, n) == SubSeq(s, 1, IF n < Len(s) THEN n ELSE Len(s))

\* str.split(c)
RECURSIVE Split(_, _)
Split(s, c) ==
    LET i == IndexOf(s, c)
    IN  IF i = 0 THEN <<s>>
        ELSE <<SubSeq(s, 1, i - 1)>> \o Split(SubSeq(s, i + 1, Len(s)), c)

\* c.join(parts)
RECURSIVE Join(_, _)
Join(parts, c) ==
    IF parts = <<>> THEN <<>>
    ELSE IF Len(parts) = 1 THEN parts[1]
    ELSE parts[1] \o <<c>> \o Join(Tail(parts), c)

Lowercase ==
    <<"a", "b", "c", "d", "e", "f", "g", "h", "i", "j", "k", "l", "m",
      "n", "o", "p", "q", "r", "s", "t", "u", "v", "w", "x", "y", "z">>

Uppercase ==
    <<"A", "B", "C", "D", "E", "F", "G", "H", "I", "J", "K", "L", "M",
      "N", "O", "P", "Q", "R", "S", "T", "U", "V", "W", "X", "Y", "Z">>

Letters == {Lowercase[i] : i \in 1..26} \cup {Uppercase[i] : i \in 1..26}

\* urllib.parse.scheme_chars
scheme_chars == Letters \cup {Digits[i] : i \in 1..10} \cup {"+", "-", "."}

\* str.lower()
Lower(s) ==
    [i \in 1..Len(s) |->
        IF \E k \in 1..26 : Uppercase[k] = s[i]
        THEN Lowercase[CHOOSE k \in 1..26 : Uppercase[k] = s[i]]
        ELSE s[i]]

uses_relative ==
    { <<>>, <<"f", "t", "p">>, <<"h", "t", "t", "p">>,
      <<"g", "o", "p", "h", "e", "r">>, <<"n", "n", "t", "p">>,
      <<"i", "m", "a", "p">>, <<"w", "a", "i", "s">>, <<"f", "i", "l", "e">>,
      <<"h", "t", "t", "p", "s">>, <<"s", "h", "t", "t", "p">>,
      <<"m", "m", "s">>, <<"p", "r", "o", "s", "p", "e", "r", "o">>,
      <<"r", "t", "s", "p">>, <<"r", "t", "s", "p", "s">>,
      <<"r", "t", "s", "p", "u">>, <<"s", "f", "t", "p">>, <<"s", "v", "n">>,
      <<"s", "v", "n", "+", "s", "s", "h">>, <<"w", "s">>, <<"w", "s", "s">> }

uses_netloc ==
    { <<>>, <<"f", "t", "p">>, <<"h", "t", "t", "p">>,
      <<"g", "o", "p", "h", "e", "r">>, <<"n", "n", "t", "p">>,
      <<"t", "e", "l", "n", "e", "t">>, <<"i", "m", "a", "p">>,
      <<"w", "a", "i", "s">>, <<"f", "i", "l", "e">>, <<"m", "m", "s">>,
      <<"h", "t", "t", "p", "s">>, <<"s", "h", "t", "t", "p">>,
      <<"s", "n", "e", "w", "s">>,
      <<"p", "r", "o", "s", "p", "e", "r", "o">>, <<"r", "t", "s", "p">>,
      <<"r", "t", "s", "p", "s">>, <<"r", "t", "s", "p", "u">>,
      <<"r", "s", "y", "n", "c">>, <<"s", "v", "n">>,
      <<"s", "v", "n", "+", "s", "s", "h">>, <<"s", "f", "t", "p">>,
      <<"n", "f", "s">>, <<"g", "i", "t">>,
      <<"g", "i", "t", "+", "s", "s", "h">>, <<"w", "s">>, <<"w", "s", "s">> }

\* a local variable: x is bound to the value of v in F(x)
Bind(v, F(_)) == CHOOSE r \in {F(x) : x \in {v}} : TRUE

\* the length of the scheme that url starts with, 0 when it starts with none
scheme_len(url) ==
    LET i == IndexOf(url, ":")
    IN  IF /\ i > 1
           /\ url[1] \in Letters
           /\ \A k \in 1..(i - 1) : url[k] \in scheme_chars
        THEN i - 1 ELSE 0

\* _splitnetloc(url, 2): the index of the first of / ? # after the leading
\* '//', the length of url plus 1 when there is none
netloc_end(url) ==
    LET delims == {k \in 3..Len(url) : url[k] \in {"/", "?", "#"}}
    IN  IF delims = {} THEN Len(url) + 1
        ELSE CHOOSE k \in delims : \A m \in delims : k <= m

\* the end of urlsplit: the fragment is split off at the first '#', then the
\* query at the first '?'
split_query_fragment(scheme, netloc, url) ==
    Bind(IndexOf(url, "#"), LAMBDA h :
    Bind(IF h > 0 THEN SubSeq(url, 1, h - 1) ELSE url, LAMBDA url3 :
    Bind(IndexOf(url3, "?"), LAMBDA q :
        << scheme,
           netloc,
           IF q > 0 THEN SubSeq(url3, 1, q - 1) ELSE url3,
           IF q > 0 THEN SubSeq(url3, q + 1, Len(url3)) ELSE <<>>,
           IF h > 0 THEN SubSeq(url, h + 1, Len(url)) ELSE <<>> >>)))

\* the fields of SplitResult, a named tuple
Scheme(r) == r[1]

Netloc(r) == r[2]

Path(r) == r[3]

Query(r) == r[4]

Fragment(r) == r[5]

\* the test of urlsplit that raises ValueError("Invalid IPv6 URL"): one of
\* '[' and ']' is in netloc and the other is not
invalid_brackets(netloc) ==
    (IndexOf(netloc, "[") > 0) # (IndexOf(netloc, "]") > 0)

\* urlsplit(url, scheme): SplitResult(scheme, netloc, path, query, fragment)
urlsplit(url, scheme) ==
    Bind(scheme_len(url), LAMBDA n :
    Bind(IF n > 0 THEN SubSeq(url, n + 2, Len(url)) ELSE url, LAMBDA url1 :
    Bind(IF Prefix(url1, 2) = <<"/", "/">> THEN netloc_end(url1) ELSE 0,
         LAMBDA d :
        IF d > 0 /\ invalid_brackets(SubSeq(url1, 3, d - 1)) THEN ValueError
        ELSE split_query_fragment(
            IF n > 0 THEN Lower(SubSeq(url, 1, n)) ELSE scheme,
            IF d > 0 THEN SubSeq(url1, 3, d - 1) ELSE <<>>,
            IF d > 0 THEN SubSeq(url1, d, Len(url1)) ELSE url1))))

\* urlparse(url, scheme): urlsplit, the params being empty
urlparse(url, scheme) == urlsplit(url, scheme)

\* urlunsplit((scheme, netloc, url, query, fragment))
urlunsplit(scheme, netloc, path, query, fragment) ==
    Bind(IF \/ netloc # <<>>
            \/ (scheme # <<>> /\ scheme \in uses_netloc
                /\ Prefix(path, 2) # <<"/", "/">>)
         THEN <<"/", "/">> \o netloc
              \o (IF path # <<>> /\ path[1] # "/"
                  THEN <<"/">> \o path ELSE path)
         ELSE path, LAMBDA url1 :
        (IF scheme # <<>> THEN scheme \o <<":">> \o url1 ELSE url1)
        \o (IF query # <<>> THEN <<"?">> \o query ELSE <<>>)
        \o (IF fragment # <<>> THEN <<"#">> \o fragment ELSE <<>>))

\* urlunparse, the params being empty
urlunparse(scheme, netloc, path, query, fragment) ==
    urlunsplit(scheme, netloc, path, query, fragment)

\* the loop over the segments in urljoin: '..' pops, '.' is skipped
RECURSIVE resolve_path(_, _)
resolve_path(segments, resolved_path) ==
    IF segments = <<>> THEN resolved_path
    ELSE IF Head(segments) = <<".", ".">>
         THEN resolve_path(Tail(segments),
                           IF resolved_path = <<>> THEN <<>>
                           ELSE SubSeq(resolved_path, 1, Len(resolved_path) - 1))
    ELSE IF Head(segments) = <<".">>
         THEN resolve_path(Tail(segments), resolved_path)
    ELSE resolve_path(Tail(segments), Append(resolved_path, Head(segments)))

\* the segments urljoin resolves: the path's own when it starts with '/',
\* else those of the base path without its last one, then the path's, the
\* empty ones in the middle filtered out
join_segments(bpath, path) ==
    Bind(Split(bpath, "/"), LAMBDA bparts :
    Bind((IF bparts[Len(bparts)] # <<>>
          THEN SubSeq(bparts, 1, Len(bparts) - 1) ELSE bparts)
         \o Split(path, "/"), LAMBDA joined :
        IF path[1] = "/" THEN Split(path, "/")
        ELSE IF Len(joined) <= 2 THEN joined
        ELSE <<joined[1]>>
             \o SelectSeq(SubSeq(joined, 2, Len(joined) - 1),
                          LAMBDA seg : seg # <<>>)
             \o <<joined[Len(joined)]>>))

\* '/'.join(resolved_path) or '/', a trailing '' appended after '.' or '..'
resolved_path(segments) ==
    Bind(resolve_path(segments, <<>>), LAMBDA resolved :
    Bind(Join(IF segments[Len(segments)] \in {<<".">>, <<".", ".">>}
              THEN Append(resolved, <<>>) ELSE resolved, "/"), LAMBDA path :
        IF path = <<>> THEN <<"/">> ELSE path))

\* urljoin(base, url)
urljoin(base, url) ==
    IF base = <<>> THEN url
    ELSE IF url = <<>> THEN base
    ELSE
    Bind(urlparse(base, <<>>), LAMBDA b :
    IF b = ValueError THEN ValueError ELSE
    Bind(urlparse(url, Scheme(b)), LAMBDA u :
    IF u = ValueError THEN ValueError ELSE
    Bind(IF Scheme(u) \in uses_netloc /\ Netloc(u) = <<>>
         THEN Netloc(b) ELSE Netloc(u), LAMBDA netloc :
        IF Scheme(u) # Scheme(b) \/ Scheme(u) \notin uses_relative THEN url
        ELSE IF Scheme(u) \in uses_netloc /\ Netloc(u) # <<>>
        THEN urlunparse(Scheme(u), Netloc(u), Path(u), Query(u), Fragment(u))
        ELSE IF Path(u) = <<>>
        THEN urlunparse(Scheme(u), netloc, Path(b),
                        IF Query(u) = <<>> THEN Query(b) ELSE Query(u),
                        Fragment(u))
        ELSE Bind(resolved_path(join_segments(Path(b), Path(u))), LAMBDA path :
                urlunparse(Scheme(u), netloc, path, Query(u), Fragment(u))))))

----------------------------------------------------------------------------
(* examples/03_links_and_images.py *)

s_No_text == <<"N", "o", " ", "t", "e", "x", "t">>

s_No_alt_text == <<"N", "o", " ", "a", "l", "t", " ", "t", "e", "x", "t">>

s_No_title == <<"N", "o", " ", "t", "i", "t", "l", "e">>

\* the truth value of link.get(...): None and '' are false
Truthy(x) == x # NoneStr /\ x # <<>>

\* the loop of lines 46-56 over the anchors found
RECURSIVE extract_links(_, _)
extract_links(anchors, base_url) ==
    IF anchors = <<>> THEN <<>>
    ELSE LET link == Head(anchors)
             href == Get(link, "href", NoneStr)
             text == Strip(Text(link))
         IN  IF Truthy(href)
             THEN Bind(urljoin(base_url, href), LAMBDA absolute_url :
                  IF absolute_url = ValueError THEN ValueError
                  ELSE Bind(extract_links(Tail(anchors), base_url), LAMBDA rest :
                       IF rest = ValueError THEN ValueError
                       ELSE <<[text |-> IF text # <<>> THEN text
                                        ELSE s_No_text,
                               url  |-> absolute_url]>> \o rest))
             ELSE extract_links(Tail(anchors), base_url)

extract_all_links(page, base_url) ==
    extract_links(FindAll(page, {"a"}), base_url)

\* the loop of lines 74-86 over the imgs found
RECURSIVE extract_images(_, _)
extract_images(imgs, base_url) ==
    IF imgs = <<>> THEN <<>>
    ELSE LET img   == Head(imgs)
             src   == Get(img, "src", NoneStr)
             alt   == Get(img, "alt", s_No_alt_text)
             title == Get(img, "title", s_No_title)
         IN  IF Truthy(src)
             THEN Bind(urljoin(base_url, src), LAMBDA absolute_src :
                  IF absolute_src = ValueError THEN ValueError
                  ELSE Bind(extract_images(Tail(imgs), base_url), LAMBDA rest :
                       IF rest = ValueError THEN ValueError
                       ELSE <<[src   |-> absolute_src,
                               alt   |-> alt,
                               title |-> title]>> \o rest))
             ELSE extract_images(Tail(imgs), base_url)

extract_all_images(page, base_url) ==
    extract_images(FindAll(page, {"img"}), base_url)

\* lines 112-118 without "or not parsed.netloc"
RECURSIVE categorize_same_netloc_only(_, _, _)
categorize_same_netloc_only(links, base_domain, categorized) ==
    IF links = <<>> THEN categorized
    ELSE LET link   == Head(links)
             parsed == urlparse(link.url, <<>>)
         IN  IF parsed = ValueError THEN ValueError
             ELSE IF Netloc(parsed) = base_domain
             THEN categorize_same_netloc_only(Tail(links), base_domain,
                      [categorized EXCEPT !.internal = Append(@, link)])
             ELSE categorize_same_netloc_only(Tail(links), base_domain,
                      [categorized EXCEPT !.external = Append(@, link)])

\* the loop of lines 112-118
RECURSIVE categorize(_, _, _)
categorize(links, base_domain, categorized) ==
    IF links = <<>> THEN categorized
    ELSE LET link   == Head(links)
             parsed == urlparse(link.url, <<>>)
         IN  IF parsed = ValueError THEN ValueError
             ELSE IF Netloc(parsed) = base_domain \/ Netloc(parsed) = <<>>
             THEN categorize(Tail(links), base_domain,
                      [categorized EXCEPT !.internal = Append(@, link)])
             ELSE categorize(Tail(links), base_domain,
                      [categorized EXCEPT !.external = Append(@, link)])

categorize_links(links) ==
    LET categorized == [internal |-> <<>>, external |-> <<>>]
    IN  IF links = <<>> THEN categorized
        ELSE Bind(urlparse(links[1].url, <<>>), LAMBDA first :
             IF first = ValueError THEN ValueError
             ELSE categorize(links, Netloc(first), categorized))

----------------------------------------------------------------------------
(* The pages.  The markup of a table is its rows in document order, each   *)
(* with the element that encloses it (thead, tbody, or the table itself);  *)
(* consecutive rows of one section are one thead or tbody element.         *)

MaxRows == 3

Th(text) == [kind |-> "th", text |-> text]

Td(text) == [kind |-> "td", text |-> text]

\* the rows a generated table is made of
RowSamples ==
    { <<>>,
      <<Th(<<" ", "A", " ">>), Th(<<"A">>)>>,
      <<Th(<<"C", "o", "l", "u", "m", "n", "_", "2">>)>>,
      <<Th(<<"B">>), Td(<<"2", "\n">>)>>,
      <<Td(<<" ", "1">>), Td(<<"2", " ">>), Td(<<" ">>)>> }

Enclosing == {"thead", "tbody", "table"}

MarkupRow == [sect : Enclosing, cells : RowSamples]

s_Library == <<"L", "i", "b", "r", "a", "r", "y">>

s_Purpose == <<"P", "u", "r", "p", "o", "s", "e">>

s_Version == <<"V", "e", "r", "s", "i", "o", "n">>

s_Requests == <<"R", "e", "q", "u", "e", "s", "t", "s">>

s_HTTP_Requests ==
    <<"H", "T", "T", "P", " ", "R", "e", "q", "u", "e", "s", "t", "s">>

s_2_31_0 == <<"2", ".", "3", "1", ".", "0">>

s_BeautifulSoup4 ==
    <<"B", "e", "a", "u", "t", "i", "f", "u", "l", "S", "o", "u", "p", "4">>

s_HTML_Parsing == <<"H", "T", "M", "L", " ", "P", "a", "r", "s", "i", "n", "g">>

s_4_12_0 == <<"4", ".", "1", "2", ".", "0">>

s_lxml == <<"l", "x", "m", "l">>

s_Fast_Parser == <<"F", "a", "s", "t", " ", "P", "a", "r", "s", "e", "r">>

s_4_9_0 == <<"4", ".", "9", ".", "0">>

\* the table of demo_local.py, HTML_CONTENT
DemoTable ==
    << [sect |-> "thead",
        cells |-> <<Th(s_Library), Th(s_Purpose), Th(s_Version)>>],
       [sect |-> "tbody",
        cells |-> <<Td(s_Requests), Td(s_HTTP_Requests), Td(s_2_31_0)>>],
       [sect |-> "tbody",
        cells |-> <<Td(s_BeautifulSoup4), Td(s_HTML_Parsing), Td(s_4_12_0)>>],
       [sect |-> "tbody",
        cells |-> <<Td(s_lxml), Td(s_Fast_Parser), Td(s_4_9_0)>>] >>

\* the markups of n rows
TableMarkups(n) == [1..n -> MarkupRow]

\* the tr element of markup row i
ParseRow(src, i) ==
    Tag("tr", NoAttrs, <<>>,
        [j \in 1..Len(src[i].cells) |->
            Tag(src[i].cells[j].kind, NoAttrs, src[i].cells[j].text,
                <<>>, <<i, j>>)],
        <<i, 0>>)

\* the last row of the section that starts at row i
SectionEnd(src, i) ==
    CHOOSE j \in i..Len(src) :
        /\ \A k \in i..j : src[k].sect = src[i].sect
        /\ j = Len(src) \/ src[j + 1].sect # src[i].sect

\* the children of the table element, from markup row i on
RECURSIVE ParseRows(_, _)
ParseRows(src, i) ==
    IF i > Len(src) THEN <<>>
    ELSE IF src[i].sect = "table"
         THEN <<ParseRow(src, i)>> \o ParseRows(src, i + 1)
         ELSE LET j == SectionEnd(src, i)
              IN  <<Tag(src[i].sect, NoAttrs, <<>>,
                        [k \in 1..(j - i + 1) |-> ParseRow(src, i + k - 1)],
                        <<i, -1>>)>>
                  \o ParseRows(src, j + 1)

\* BeautifulSoup(markup, 'lxml') of a page that holds one table
ParseTablePage(src) ==
    Tag("[document]", NoAttrs, <<>>,
        <<Tag("table", NoAttrs, <<>>, ParseRows(src, 1), <<0, 0>>)>>,
        <<-1, 0>>)

MaxElements == 2

\* the elements a generated page is made of: anchors and images with and
\* without the attributes the extraction reads
ElementSamples ==
    { [name |-> "a", attrs |-> NoAttrs,
       string |-> <<"x">>,
       contents |-> <<>>],
      [name |-> "a", attrs |-> ("href" :> <<>>),
       string |-> <<" ", "y">>,
       contents |-> <<>>],
      [name |-> "a", attrs |-> ("href" :> <<"/", "a", "b", "o", "u", "t">>),
       string |-> <<"A", "b", "o", "u", "t">>,
       contents |-> <<>>],
      [name |-> "a", attrs |-> ("href" :> <<"h", "t", "t", "p", "s", ":", "/", "/", "a", ".", "c", "o", "m", "/", "x">>),
       string |-> <<" ", "a", "\n">>,
       contents |-> <<>>],
      [name |-> "a", attrs |-> ("href" :> <<"h", "t", "t", "p", "s", ":", "/", "/", "b", ".", "c", "o", "m", "/", "y">>),
       string |-> <<>>,
       contents |-> <<[name |-> "img", attrs |-> ("src" :> <<"/", "l", "o", "g", "o", ".", "p", "n", "g">>) @@ ("alt" :> <<"L", "o", "g", "o">>),
          string |-> <<>>, contents |-> <<>>]>>],
      [name |-> "a", attrs |-> ("href" :> <<"#", "t", "o", "p">>),
       string |-> <<"\n">>,
       contents |-> <<>>],
      [name |-> "a", attrs |-> ("href" :> <<"/", "/", "c", "d", "n", ".", "c", "o", "m", "/", "l", "i", "b">>),
       string |-> <<"c", "d", "n">>,
       contents |-> <<>>],
      [name |-> "a", attrs |-> ("href" :> <<".", ".", "/", "u", "p", "/", ".", "/", "x", "?", "q", "=", "1">>),
       string |-> <<"u", "p">>,
       contents |-> <<>>],
      [name |-> "a", attrs |-> ("href" :> <<"m", "a", "i", "l", "t", "o", ":", "a", "@", "b", ".", "c">>),
       string |-> <<"m">>,
       contents |-> <<>>],
      [name |-> "a", attrs |-> ("href" :> <<"/", "/", "[">>),
       string |-> <<"v">>,
       contents |-> <<>>],
      [name |-> "img", attrs |-> ("src" :> <<"/", "/", "[">>),
       string |-> <<>>,
       contents |-> <<>>],
      [name |-> "img", attrs |-> ("alt" :> <<"x">>),
       string |-> <<>>,
       contents |-> <<>>],
      [name |-> "img", attrs |-> ("src" :> <<>>) @@ ("title" :> <<"T">>),
       string |-> <<>>,
       contents |-> <<>>],
      [name |-> "img", attrs |-> ("src" :> <<"p", "i", "c", ".", "j", "p", "g">>) @@ ("alt" :> <<>>) @@ ("title" :> <<"T">>),
       string |-> <<>>,
       contents |-> <<>>] }

\* the markups of n elements
LinkMarkups(n) == [1..n -> ElementSamples]

\* the element of markup item i, with its children, placed in the document
ParseElement(src, i) ==
    Tag(src[i].name, src[i].attrs, src[i].string,
        [j \in 1..Len(src[i].contents) |->
            Tag(src[i].contents[j].name, src[i].contents[j].attrs,
                src[i].contents[j].string, <<>>, <<i, j>>)],
        <<i, 0>>)

\* BeautifulSoup(markup, 'lxml') of a page of anchors and images
ParseLinkPage(src) ==
    Tag("[document]", NoAttrs, <<>>,
        <<Tag("body", NoAttrs, <<>>,
              [i \in 1..Len(src) |-> ParseElement(src, i)], <<0, 0>>)>>,
        <<-1, 0>>)

\* the URLs a page is fetched from (main: url = "https://example.com")
BaseUrls ==
    { <<"h", "t", "t", "p", "s", ":", "/", "/", "e", "x", "a", "m", "p", "l", "e", ".", "c", "o", "m", "/", "p", "a", "g", "e">>,
      <<"h", "t", "t", "p", ":", "/", "/", "a", ".", "c", "o", "m", "/", "d", "i", "r", "/", "s", "u", "b", "/">> }

----------------------------------------------------------------------------
(* The program: a page is parsed once, then queried any number of times.   *)

Init ==
    /\ soup = None
    /\ op = "start"
    /\ arg = None
    /\ ret = None
    /\ attempts = <<>>
    /\ results = <<>>
    /\ log = <<>>
    /\ pc = "idle"

\* soup = BeautifulSoup(...) of a page with a table
ScrapeTablePage ==
    /\ soup = None
    /\ \E n \in 0..MaxRows :
         \E src \in TableMarkups(n) : soup' = ParseTablePage(src)
    /\ op' = "BeautifulSoup"
    /\ arg' = None
    /\ ret' = None
    /\ UNCHANGED fetchvars

\* demo_local.py: soup = BeautifulSoup(HTML_CONTENT, 'lxml')
ScrapeDemoPage ==
    /\ soup = None
    /\ soup' = ParseTablePage(DemoTable)
    /\ op' = "BeautifulSoup"
    /\ arg' = None
    /\ ret' = None
    /\ UNCHANGED fetchvars

\* extract_table_data that empties the document it reads (soup.clear())
ExtractTableDataClearing ==
    /\ soup # None
    /\ \E i \in 1..Len(FindAll(soup, {"table"})) :
         LET table == FindAll(soup, {"table"})[i]
         IN  /\ arg' = table
             /\ ret' = extract_table_data(table)
    /\ op' = "extract_table_data"
    /\ soup' = [soup EXCEPT !.contents = <<>>]
    /\ UNCHANGED fetchvars

\* table_data = extract_table_data(table), for a table of the page
ExtractTableData ==
    /\ soup # None
    /\ \E i \in 1..Len(FindAll(soup, {"table"})) :
         LET table == FindAll(soup, {"table"})[i]
         IN  /\ arg' = table
             /\ ret' = extract_table_data(table)
    /\ op' = "extract_table_data"
    /\ UNCHANGED soup
    /\ UNCHANGED fetchvars

\* dict_list = table_to_dict_list(table_data)
TableToDictList ==
    /\ op = "extract_table_data"
    /\ arg' = ret
    /\ ret' = table_to_dict_list(ret)
    /\ op' = "table_to_dict_list"
    /\ UNCHANGED soup
    /\ UNCHANGED fetchvars

NextTables ==
    ScrapeTablePage \/ ScrapeDemoPage \/ ExtractTableData \/ TableToDictList

SpecTables == Init /\ [][NextTables]_vars

\* soup = BeautifulSoup(...) of a page with anchors and images
ScrapeLinkPage ==
    /\ soup = None
    /\ \E n \in 0..MaxElements :
         \E src \in LinkMarkups(n) : soup' = ParseLinkPage(src)
    /\ op' = "BeautifulSoup"
    /\ arg' = None
    /\ ret' = None
    /\ UNCHANGED fetchvars

\* links = extract_all_links(soup, url)
ExtractAllLinks ==
    /\ soup # None
    /\ \E base_url \in BaseUrls :
         /\ arg' = base_url
         /\ ret' = extract_all_links(soup, base_url)
    /\ op' = "extract_all_links"
    /\ UNCHANGED soup
    /\ UNCHANGED fetchvars

\* images = extract_all_images(soup, url)
ExtractAllImages ==
    /\ soup # None
    /\ \E base_url \in BaseUrls :
         /\ arg' = base_url
         /\ ret' = extract_all_images(soup, base_url)
    /\ op' = "extract_all_images"
    /\ UNCHANGED soup
    /\ UNCHANGED fetchvars

\* categorized = categorize_links(links)
CategorizeLinks ==
    /\ op = "extract_all_links"
    /\ ret # ValueError
    /\ arg' = ret
    /\ ret' = categorize_links(ret)
    /\ op' = "categorize_links"
    /\ UNCHANGED soup
    /\ UNCHANGED fetchvars

NextLinks ==
    ScrapeLinkPage \/ ExtractAllLinks \/ ExtractAllImages \/ CategorizeLinks

SpecLinks == Init /\ [][NextLinks]_vars

----------------------------------------------------------------------------
(* What the claims speak of, stated on the tree of the table *)

\* the trimmed text of the th cells below e, in document order
HeaderCellText(e) ==
    LET ths == SelectSeq(Descendants(e), LAMBDA c : c.name = "th")
    IN  [i \in 1..Len(ths) |-> Strip(Text(ths[i]))]

\* the cells of a row, of both kinds, in document order
Cells(row) == SelectSeq(Descendants(row), LAMBDA c : c.name \in {"th", "td"})

\* the trimmed text of every cell of a row
CellText(row) == [i \in 1..Len(Cells(row)) |-> Strip(Text(Cells(row)[i]))]

\* the rows below e, in document order
RowsOf(e) == SelectSeq(Descendants(e), LAMBDA r : r.name = "tr")

\* the cell text of the rows of trs that are not excluded and have a cell
RowTextWithout(trs, excluded) ==
    LET kept == SelectSeq(trs, LAMBDA r : r.sourcepos \notin excluded
                                          /\ Cells(r) # <<>>)
    IN  [i \in 1..Len(kept) |-> CellText(kept[i])]

HasSection(t, name) == \E i \in 1..Len(Descendants(t)) : Descendants(t)[i].name = name

\* the first section of that name
Section(t, name) ==
    SelectSeq(Descendants(t), LAMBDA d : d.name = name)[1]

\* the table's first row holds header cells
FirstRowIsHeader(t) ==
    RowsOf(t) # <<>> /\ HeaderCellText(RowsOf(t)[1]) # <<>>

\* C1: if the table has a thead, headers are its th cells; otherwise, if the
\* first row holds th cells, headers are those and the first row is not in
\* rows; otherwise headers is empty and no row is excluded; with or without a
\* tbody.
C1_HeaderSelection ==
    op = "extract_table_data" =>
        LET t == arg
            source == IF HasSection(t, "tbody")
                      THEN RowsOf(Section(t, "tbody"))
                      ELSE RowsOf(t)
        IN  IF HasSection(t, "thead")
            THEN ret.headers = HeaderCellText(Section(t, "thead"))
            ELSE IF FirstRowIsHeader(t)
            THEN /\ ret.headers = HeaderCellText(RowsOf(t)[1])
                 /\ ret.rows = RowTextWithout(source, {RowsOf(t)[1].sourcepos})
            ELSE /\ ret.headers = <<>>
                 /\ ret.rows = RowTextWithout(source, {})

\* the rows consumed as header: every row of the thead, else the first row
\* when it holds header cells
ConsumedAsHeader(t) ==
    IF HasSection(t, "thead")
    THEN {RowsOf(Section(t, "thead"))[i].sourcepos :
            i \in 1..Len(RowsOf(Section(t, "thead")))}
    ELSE IF FirstRowIsHeader(t) THEN {RowsOf(t)[1].sourcepos}
    ELSE {}

\* C2: with a tbody the row source is the tbody's rows; otherwise it is every
\* row of the table but the rows consumed as header, and no data row is
\* removed.
C2_RowSource ==
    op = "extract_table_data" =>
        LET t == arg
        IN  IF HasSection(t, "tbody")
            THEN ret.rows = RowTextWithout(RowsOf(Section(t, "tbody")), {})
            ELSE ret.rows = RowTextWithout(RowsOf(t), ConsumedAsHeader(t))

\* C3 as stated: for a table with a thead and a tbody, headers is the trimmed
\* text of the thead's header cells and rows is the trimmed cell text of every
\* row of the tbody, in document order.
C3_RoundTrip ==
    (op = "extract_table_data" /\ HasSection(arg, "thead")
                               /\ HasSection(arg, "tbody")) =>
        LET body == RowsOf(Section(arg, "tbody"))
        IN  /\ ret.headers = HeaderCellText(Section(arg, "thead"))
            /\ ret.rows = [i \in 1..Len(body) |-> CellText(body[i])]

\* C3 as amended: the same, with the tbody rows that have no cell left out.
C3_RoundTripOfRowsWithCells ==
    (op = "extract_table_data" /\ HasSection(arg, "thead")
                               /\ HasSection(arg, "tbody")) =>
        /\ ret.headers = HeaderCellText(Section(arg, "thead"))
        /\ ret.rows = RowTextWithout(RowsOf(Section(arg, "tbody")), {})

\* a table with a thead and a tbody that holds a row without cells and a row
\* with cells
C3_Witness ==
    /\ op = "extract_table_data"
    /\ HasSection(arg, "thead") /\ HasSection(arg, "tbody")
    /\ ret.headers # <<>> /\ ret.rows # <<>>
    /\ \E i \in 1..Len(RowsOf(Section(arg, "tbody"))) :
          Cells(RowsOf(Section(arg, "tbody"))[i]) = <<>>

\* C4: rows holds, for every row of the row source that has a cell and for no
\* other, the trimmed text of all its cells (th and td, in order), whatever
\* the number of headers.
C4_RowCells ==
    op = "extract_table_data" =>
        LET source == table_rows(arg, ret.headers)
            kept   == SelectSeq(source, LAMBDA r : Cells(r) # <<>>)
        IN  /\ Len(ret.rows) = Len(kept)
            /\ \A k \in 1..Len(kept) :
                  /\ ret.rows[k] # <<>>
                  /\ Len(ret.rows[k]) = Len(Cells(kept[k]))
                  /\ \A j \in 1..Len(Cells(kept[k])) :
                        ret.rows[k][j] = Strip(Text(Cells(kept[k])[j]))

\* headers were found, the row source holds a row without cells, and rows
\* holds a row shorter or longer than headers
C4_Witness ==
    /\ op = "extract_table_data"
    /\ ret.headers # <<>>
    /\ \E i \in 1..Len(table_rows(arg, ret.headers)) :
          Cells(table_rows(arg, ret.headers)[i]) = <<>>
    /\ \E k \in 1..Len(ret.rows) : Len(ret.rows[k]) # Len(ret.headers)
    /\ \E k \in 1..Len(ret.rows) : \E j \in 1..Len(ret.rows[k]) :
          ret.rows[k][j] = <<>>

\* C5: table_to_dict_list returns one record for each row, also when headers
\* is empty.
C5_OneRecordPerRow ==
    op = "table_to_dict_list" => Len(ret) = Len(arg.rows)

\* the key the claim gives the j-th cell of a row (the cell of index j - 1)
ClaimedKey(headers, j) ==
    IF j <= Len(headers) THEN headers[j]
    ELSE <<"C", "o", "l", "u", "m", "n", "_">> \o IntToStr(j)

\* C6: in every record, the cell of index i is under headers[i] when
\* i < len(headers) and under "Column_" and i + 1 otherwise, and a key two
\* cells share holds the later cell; headers [Library, Purpose, Version] and
\* row [Requests, HTTP Requests, 2.31.0] give the record of the claim.
C6_RecordKeys ==
    op = "table_to_dict_list" =>
        /\ \A k \in 1..Len(ret) :
              LET row    == arg.rows[k]
                  Key(j) == ClaimedKey(arg.headers, j)
                  Last(j) == CHOOSE m \in 1..Len(row) :
                                /\ Key(m) = Key(j)
                                /\ \A n \in 1..Len(row) :
                                      Key(n) = Key(j) => n <= m
              IN  /\ DOMAIN ret[k] = {Key(j) : j \in 1..Len(row)}
                  /\ \A j \in 1..Len(row) : ret[k][Key(j)] = row[Last(j)]
        /\ (/\ arg.headers = <<s_Library, s_Purpose, s_Version>>
            /\ arg.rows # <<>>
            /\ arg.rows[1] = <<s_Requests, s_HTTP_Requests, s_2_31_0>>)
           => ret[1] = (s_Library :> s_Requests)
                       @@ (s_Purpose :> s_HTTP_Requests)
                       @@ (s_Version :> s_2_31_0)

\* a record with a synthesized key that an earlier cell's header also names
C6_Witness ==
    /\ op = "table_to_dict_list"
    /\ \E k \in 1..Len(ret) :
          \E i, j \in 1..Len(arg.rows[k]) :
              /\ i < j
              /\ i <= Len(arg.headers) /\ j > Len(arg.headers)
              /\ ClaimedKey(arg.headers, i) = ClaimedKey(arg.headers, j)
              /\ arg.rows[k][i] # arg.rows[k][j]

----------------------------------------------------------------------------
(* What the claims speak of, stated on the tree of the page.  The standard *)
(* relative-URL resolution is that of RFC 3986: the components of          *)
(* appendix B, the transformation of 5.2.2, remove_dot_segments of 5.2.4   *)
(* and the recomposition of 5.3.  A component that is undefined is         *)
(* NoneStr.                                                                *)

StartsWith(s, p) == Len(s) >= Len(p) /\ SubSeq(s, 1, Len(p)) = p

\* s without its first n characters
Drop(s, n) == SubSeq(s, n + 1, Len(s))

\* the index of the first character of s that is in chars, Len(s) + 1 when
\* there is none
FirstOf(s, chars) ==
    IF \E i \in 1..Len(s) : s[i] \in chars
    THEN CHOOSE i \in 1..Len(s) :
            s[i] \in chars /\ \A k \in 1..(i - 1) : s[k] \notin chars
    ELSE Len(s) + 1

\* appendix B: ^(([^:/?#]+):)?(//([^/?#]*))?([^?#]*)(\?([^#]*))?(#(.*))?
UriRest(scheme, authority, r2) ==
    Bind(FirstOf(r2, {"?", "#"}), LAMBDA p :
    Bind(Drop(r2, p - 1), LAMBDA r3 :
    Bind(FirstOf(r3, {"#"}), LAMBDA q :
        [scheme    |-> scheme,
         authority |-> authority,
         path      |-> SubSeq(r2, 1, p - 1),
         query     |-> IF StartsWith(r3, <<"?">>)
                       THEN SubSeq(r3, 2, q - 1) ELSE NoneStr,
         fragment  |-> IF q <= Len(r3) THEN Drop(r3, q) ELSE NoneStr])))

UriParts(ref) ==
    Bind(FirstOf(ref, {":", "/", "?", "#"}), LAMBDA c :
    Bind(IF c > 1 /\ c <= Len(ref) /\ ref[c] = ":" THEN c ELSE 0, LAMBDA n :
    Bind(Drop(ref, n), LAMBDA r1 :
    Bind(IF StartsWith(r1, <<"/", "/">>)
         THEN FirstOf(Drop(r1, 2), {"/", "?", "#"}) + 2 ELSE 0, LAMBDA a :
        UriRest(IF n > 0 THEN SubSeq(ref, 1, n - 1) ELSE NoneStr,
                IF a > 0 THEN SubSeq(r1, 3, a - 1) ELSE NoneStr,
                IF a > 0 THEN Drop(r1, a - 1) ELSE r1)))))

\* the output buffer of 5.2.4 without its last segment and the '/' before it
RemoveLastSegment(out) ==
    IF \E i \in 1..Len(out) : out[i] = "/"
    THEN SubSeq(out, 1, (CHOOSE i \in 1..Len(out) :
                            out[i] = "/"
                            /\ \A k \in (i + 1)..Len(out) : out[k] # "/") - 1)
    ELSE <<>>

\* 5.2.4, steps 2A to 2E on the input buffer inp and the output buffer out
RECURSIVE RemoveDotSegments(_, _)
RemoveDotSegments(inp, out) ==
    IF inp = <<>> THEN out
    ELSE IF StartsWith(inp, <<".", ".", "/">>)
         THEN RemoveDotSegments(Drop(inp, 3), out)
    ELSE IF StartsWith(inp, <<".", "/">>)
         THEN RemoveDotSegments(Drop(inp, 2), out)
    ELSE IF StartsWith(inp, <<"/", ".", "/">>)
         THEN RemoveDotSegments(Drop(inp, 2), out)
    ELSE IF inp = <<"/", ".">>
         THEN RemoveDotSegments(<<"/">>, out)
    ELSE IF StartsWith(inp, <<"/", ".", ".", "/">>)
         THEN RemoveDotSegments(Drop(inp, 3), RemoveLastSegment(out))
    ELSE IF inp = <<"/", ".", ".">>
         THEN RemoveDotSegments(<<"/">>, RemoveLastSegment(out))
    ELSE IF inp \in {<<".">>, <<".", ".">>}
         THEN RemoveDotSegments(<<>>, out)
    ELSE Bind(FirstOf(Drop(inp, 1), {"/"}), LAMBDA e :
            RemoveDotSegments(Drop(inp, e), out \o SubSeq(inp, 1, e)))

\* 5.2.3: the base path up to its last '/', then the reference's path
Merge(B, path) ==
    IF B.authority # NoneStr /\ B.path = <<>> THEN <<"/">> \o path
    ELSE IF \E i \in 1..Len(B.path) : B.path[i] = "/"
    THEN SubSeq(B.path, 1, Len(RemoveLastSegment(B.path)) + 1) \o path
    ELSE path

\* 5.3
Recompose(scheme, authority, path, query, fragment) ==
    (IF scheme # NoneStr THEN scheme \o <<":">> ELSE <<>>)
    \o (IF authority # NoneStr THEN <<"/", "/">> \o authority ELSE <<>>)
    \o path
    \o (IF query # NoneStr THEN <<"?">> \o query ELSE <<>>)
    \o (IF fragment # NoneStr THEN <<"#">> \o fragment ELSE <<>>)

\* 5.2.2: the target URI of the reference ref, resolved against base
Resolve(base, ref) ==
    Bind(UriParts(base), LAMBDA B :
    Bind(UriParts(ref), LAMBDA R :
        IF R.scheme # NoneStr
        THEN Recompose(R.scheme, R.authority,
                       RemoveDotSegments(R.path, <<>>), R.query, R.fragment)
        ELSE IF R.authority # NoneStr
        THEN Recompose(B.scheme, R.authority,
                       RemoveDotSegments(R.path, <<>>), R.query, R.fragment)
        ELSE IF R.path = <<>>
        THEN Recompose(B.scheme, B.authority, B.path,
                       IF R.query # NoneStr THEN R.query ELSE B.query,
                       R.fragment)
        ELSE IF StartsWith(R.path, <<"/">>)
        THEN Recompose(B.scheme, B.authority,
                       RemoveDotSegments(R.path, <<>>), R.query, R.fragment)
        ELSE Recompose(B.scheme, B.authority,
                       RemoveDotSegments(Merge(B, R.path), <<>>),
                       R.query, R.fragment)))

\* a URL with a scheme
IsAbsolute(url) == UriParts(url).scheme # NoneStr

\* the elements of the page with the given name, in document order
Elements(name) == SelectSeq(Descendants(soup), LAMBDA e : e.name = name)

\* those of them that have the attribute, with a non-empty value
WithAttr(name, key) ==
    SelectSeq(Elements(name),
              LAMBDA e : key \in DOMAIN e.attrs /\ e.attrs[key] # <<>>)

s_https_example_com_page ==
    <<"h", "t", "t", "p", "s", ":", "/", "/", "e", "x", "a", "m", "p", "l",
      "e", ".", "c", "o", "m", "/", "p", "a", "g", "e">>

s_https_example_com_about ==
    <<"h", "t", "t", "p", "s", ":", "/", "/", "e", "x", "a", "m", "p", "l",
      "e", ".", "c", "o", "m", "/", "a", "b", "o", "u", "t">>

s_https_a_com_x ==
    <<"h", "t", "t", "p", "s", ":", "/", "/", "a", ".", "c", "o", "m", "/",
      "x">>

s_https_b_com_y ==
    <<"h", "t", "t", "p", "s", ":", "/", "/", "b", ".", "c", "o", "m", "/",
      "y">>

\* C7: extract_links returns one record per anchor with a non-empty href,
\* in document order, none for an anchor with no href or an empty one and
\* none with an empty url; the text of a record is the trimmed text of its
\* anchor, "No text" when that is empty.
C7_RecordPerAnchor ==
    op = "extract_all_links" =>
        LET anchors == WithAttr("a", "href")
        IN  /\ ret # ValueError
            /\ Len(ret) = Len(anchors)
            /\ \A k \in 1..Len(anchors) :
                  /\ ret[k].text =
                        IF Strip(Text(anchors[k])) # <<>>
                        THEN Strip(Text(anchors[k]))
                        ELSE <<"N", "o", " ", "t", "e", "x", "t">>
                  /\ ret[k].url # <<>>

\* C8: the url of the record of every anchor with a non-empty href is the
\* absolute URL that standard relative-URL resolution of the href against
\* the base URL gives: it has a scheme, whatever the kind of the reference,
\* and an href that is absolute already is kept; href "/about" against
\* "https://example.com/page" gives "https://example.com/about", with the
\* text "About".
C8_ResolvedUrl ==
    op = "extract_all_links" =>
        LET anchors == WithAttr("a", "href")
        IN  /\ ret # ValueError
            /\ Len(ret) = Len(anchors)
            /\ \A k \in 1..Len(anchors) :
                  LET href == anchors[k].attrs["href"]
                  IN  /\ ret[k].url = Resolve(arg, href)
                      /\ IsAbsolute(ret[k].url)
                      /\ IsAbsolute(href) => ret[k].url = href
                      /\ (/\ href = <<"/", "a", "b", "o", "u", "t">>
                          /\ Text(anchors[k]) = <<"A", "b", "o", "u", "t">>
                          /\ arg = s_https_example_com_page)
                         => ret[k] = [text |-> <<"A", "b", "o", "u", "t">>,
                                      url  |-> s_https_example_com_about]

\* C9: extract_images returns one record per img with a non-empty src, in
\* document order, none for an img with no src or an empty one; src is
\* resolved against the base URL, alt is the alt attribute when the img has
\* one and "No alt text" when it has none, title is the title attribute
\* when the img has one and "No title" when it has none.
C9_RecordPerImage ==
    op = "extract_all_images" =>
        LET imgs == WithAttr("img", "src")
        IN  /\ ret # ValueError
            /\ Len(ret) = Len(imgs)
            /\ \A k \in 1..Len(imgs) :
                  /\ ret[k].src = Resolve(arg, imgs[k].attrs["src"])
                  /\ ret[k].alt =
                        IF "alt" \in DOMAIN imgs[k].attrs
                        THEN imgs[k].attrs["alt"]
                        ELSE <<"N", "o", " ", "a", "l", "t", " ",
                               "t", "e", "x", "t">>
                  /\ ret[k].title =
                        IF "title" \in DOMAIN imgs[k].attrs
                        THEN imgs[k].attrs["title"]
                        ELSE <<"N", "o", " ", "t", "i", "t", "l", "e">>

\* the network location of a link's URL: the authority, none being ''
NetworkLocation(link) ==
    Bind(UriParts(link.url).authority, LAMBDA authority :
        IF authority # NoneStr THEN authority ELSE <<>>)

\* C10: categorize_links partitions the links it is given, each list in the
\* order of the input: a link is internal when the network location of its
\* URL is that of the first link's URL or when its URL has none, external
\* otherwise.  No links give two empty lists, the first link is always
\* internal, and https://a.com/x then https://b.com/y give internal [first]
\* and external [second].
C10_Partition ==
    op = "categorize_links" =>
        LET links == arg
            Internal(link) ==
                \/ NetworkLocation(link) = NetworkLocation(links[1])
                \/ NetworkLocation(link) = <<>>
        IN  /\ DOMAIN ret = {"internal", "external"}
            /\ ret.internal = SelectSeq(links, Internal)
            /\ ret.external = SelectSeq(links, LAMBDA l : ~Internal(l))
            /\ links = <<>> => ret.internal = <<>> /\ ret.external = <<>>
            /\ links # <<>> =>
                  ret.internal # <<>> /\ ret.internal[1] = links[1]
            /\ (/\ Len(links) = 2
                /\ links[1].url = s_https_a_com_x
                /\ links[2].url = s_https_b_com_y)
               => /\ ret.internal = <<links[1]>>
                  /\ ret.external = <<links[2]>>

\* the links https://a.com/x and https://b.com/y of the claim, categorized
C10_Witness ==
    /\ op = "categorize_links"
    /\ Len(arg) = 2
    /\ arg[1].url = s_https_a_com_x
    /\ arg[2].url = s_https_b_com_y
    /\ ret.external = <<arg[2]>>

----------------------------------------------------------------------------
(* examples/05_advanced_techniques.py: extract_metadata *)

s_description == <<"d", "e", "s", "c", "r", "i", "p", "t", "i", "o", "n">>

s_og_description ==
    <<"o", "g", ":", "d", "e", "s", "c", "r", "i", "p", "t", "i", "o", "n">>

s_keywords == <<"k", "e", "y", "w", "o", "r", "d", "s">>

s_author == <<"a", "u", "t", "h", "o", "r">>

\* metadata = {'title': None, 'description': None, 'keywords': None,
\*             'author': None}
no_metadata ==
    [title |-> NoneStr, description |-> NoneStr, keywords |-> NoneStr,
     author |-> NoneStr]

\* the body of the loop with a field that is set only while it is None
meta_tag_keeps_first(metadata, tag) ==
    LET name == Lower(Get(tag, "name", <<>>))
        property_name == Lower(Get(tag, "property", <<>>))
        content == Get(tag, "content", <<>>)
    IN  IF name = s_description \/ property_name = s_og_description
        THEN IF metadata.description = NoneStr
             THEN [metadata EXCEPT !.description = content] ELSE metadata
        ELSE IF name = s_keywords
        THEN IF metadata.keywords = NoneStr
             THEN [metadata EXCEPT !.keywords = content] ELSE metadata
        ELSE IF name = s_author
        THEN IF metadata.author = NoneStr
             THEN [metadata EXCEPT !.author = content] ELSE metadata
        ELSE metadata

\* the body of "for tag in meta_tags": name, property_name, content and the
\* if / elif / elif chain
meta_tag(metadata, tag) ==
    LET name == Lower(Get(tag, "name", <<>>))
        property_name == Lower(Get(tag, "property", <<>>))
        content == Get(tag, "content", <<>>)
    IN  IF name = s_description \/ property_name = s_og_description
        THEN [metadata EXCEPT !.description = content]
        ELSE IF name = s_keywords
        THEN [metadata EXCEPT !.keywords = content]
        ELSE IF name = s_author
        THEN [metadata EXCEPT !.author = content]
        ELSE metadata

\* for tag in meta_tags, from the first tag to the last
RECURSIVE meta_loop(_, _)
meta_loop(metadata, meta_tags) ==
    IF meta_tags = <<>> THEN metadata
    ELSE meta_loop(meta_tag(metadata, Head(meta_tags)), Tail(meta_tags))

\* metadata['title'] = title_tag.text.strip() when there is a title
metadata_title(page) ==
    LET title_tag == Find(page, "title")
    IN  IF title_tag # None
        THEN [no_metadata EXCEPT !.title = Strip(Text(title_tag))]
        ELSE no_metadata

\* extract_metadata(soup)
extract_metadata(page) ==
    IF page = None THEN no_metadata
    ELSE meta_loop(metadata_title(page), FindAll(page, {"meta"}))

----------------------------------------------------------------------------
(* The pages with a head.  The markup of a head is its elements in document *)
(* order: a title or meta elements with their attributes as written.        *)

\* the most elements a head has
MaxMetas == 2

Title(text) ==
    [name |-> "title", attrs |-> NoAttrs, string |-> text]

Meta(attrs) ==
    [name |-> "meta", attrs |-> attrs, string |-> <<>>]

HeadSamples ==
    { Title(<<" ", "S", "a", "m", "p", "l", "e", " ", "P", "a", "g", "e", "\n">>),
      Meta(("name" :> s_author) @@ ("content" :> <<"x">>)),
      Meta(("name" :> <<"A", "u", "t", "h", "o", "r">>) @@ ("content" :> <<"y">>)),
      Meta("name" :> s_description),
      Meta(("property" :> s_og_description) @@ ("content" :> <<"o">>)),
      Meta(("property" :> <<"O", "G", ":", "D", "e", "s", "c", "r", "i", "p", "t", "i", "o", "n">>) @@ ("content" :> <<"O">>)),
      Meta(("name" :> s_keywords) @@ ("property" :> s_og_description) @@ ("content" :> <<"k">>)),
      Meta(("name" :> s_keywords) @@ ("content" :> <<"w">>)),
      Meta("charset" :> <<"U", "T", "F", "-", "8">>) }

\* the markups of n head elements
HeadMarkups(n) == [1..n -> HeadSamples]

\* BeautifulSoup(markup, 'lxml') of a page with a head and an empty body
ParseHeadPage(src) ==
    Tag("[document]", NoAttrs, <<>>,
        <<Tag("html", NoAttrs, <<>>,
              <<Tag("head", NoAttrs, <<>>,
                    [i \in 1..Len(src) |->
                        Tag(src[i].name, src[i].attrs, src[i].string, <<>>,
                            <<1, i>>)],
                    <<1, 0>>),
                Tag("body", NoAttrs, <<>>, <<>>, <<2, 0>>)>>,
              <<0, 0>>)>>,
        <<-1, 0>>)

----------------------------------------------------------------------------
(* bs4 find_all with a name and a limit, and select with the selectors the  *)
(* examples build (examples/02_css_selectors.py): "T", "#id", "P C" and     *)
(* "P > C".  The name a str is compared with is the element's name as the   *)
(* parser left it, in lower case.                                           *)

\* Tag.name as a str
TagName(e) ==
    CASE e.name = "p" -> <<"p">>
      [] e.name = "a" -> <<"a">>
      [] e.name = "div" -> <<"d", "i", "v">>
      [] e.name = "section" -> <<"s", "e", "c", "t", "i", "o", "n">>
      [] e.name = "h2" -> <<"h", "2">>
      [] e.name = "title" -> <<"t", "i", "t", "l", "e">>
      [] e.name = "meta" -> <<"m", "e", "t", "a">>
      [] e.name = "head" -> <<"h", "e", "a", "d">>
      [] e.name = "body" -> <<"b", "o", "d", "y">>
      [] e.name = "html" -> <<"h", "t", "m", "l">>
      [] e.name = "img" -> <<"i", "m", "g">>
      [] e.name = "table" -> <<"t", "a", "b", "l", "e">>
      [] e.name = "thead" -> <<"t", "h", "e", "a", "d">>
      [] e.name = "tbody" -> <<"t", "b", "o", "d", "y">>
      [] e.name = "tr" -> <<"t", "r">>
      [] e.name = "th" -> <<"t", "h">>
      [] e.name = "td" -> <<"t", "d">>
      [] e.name = "[document]" ->
            <<"[", "d", "o", "c", "u", "m", "e", "n", "t", "]">>

\* the loop of find_all that stops one match late
RECURSIVE find_all_loop_late(_, _, _, _)
find_all_loop_late(generator, name, limit, found) ==
    IF generator = <<>> THEN found
    ELSE IF TagName(Head(generator)) = name
    THEN IF limit # 0 /\ Len(found) + 1 > limit
         THEN Append(found, Head(generator))
         ELSE find_all_loop_late(Tail(generator), name, limit,
                                 Append(found, Head(generator)))
    ELSE find_all_loop_late(Tail(generator), name, limit, found)

\* the loop of find_all: a match is appended, and the loop breaks on
\* "limit and len(results) >= limit"
RECURSIVE find_all_loop(_, _, _, _)
find_all_loop(generator, name, limit, found) ==
    IF generator = <<>> THEN found
    ELSE IF TagName(Head(generator)) = name
    THEN IF limit # 0 /\ Len(found) + 1 >= limit
         THEN Append(found, Head(generator))
         ELSE find_all_loop(Tail(generator), name, limit,
                            Append(found, Head(generator)))
    ELSE find_all_loop(Tail(generator), name, limit, found)

\* soup.find_all(name, limit=limit) with an int limit
find_all_limit(page, name, limit) ==
    find_all_loop(Descendants(page), name, limit, <<>>)

\* soup.find_all(name): limit is None
find_all(page, name) ==
    SelectSeq(Descendants(page), LAMBDA d : TagName(d) = name)

\* the words of a selector: its compound selectors and its ">" combinators
Words(selector) == SelectSeq(Split(selector, " "), LAMBDA w : w # <<>>)

\* the compound selectors of the selector, each with the combinator that
\* joins it to the one before: ">" (child) or " " (descendant)
RECURSIVE Compounds(_, _)
Compounds(words, combinator) ==
    IF words = <<>> THEN <<>>
    ELSE IF Head(words) = <<">">> THEN Compounds(Tail(words), ">")
    ELSE <<[sel |-> Head(words), rel |-> combinator]>>
         \o Compounds(Tail(words), " ")

\* match_tagname and match_id: a type selector is compared in lower case,
\* "#id" with the id attribute
match_compound(e, sel) ==
    IF Head(sel) = "#"
    THEN "id" \in DOMAIN e.attrs /\ e.attrs["id"] = Tail(sel)
    ELSE Lower(TagName(e)) = Lower(sel)

\* match_selectors with every combinator taken as descendant
RECURSIVE match_selectors_all_descendant(_, _, _, _)
match_selectors_all_descendant(e, parents, compounds, k) ==
    /\ match_compound(e, compounds[k].sel)
    /\ \/ k = 1
       \/ \E i \in 1..Len(parents) :
             match_selectors_all_descendant(
                 parents[i], SubSeq(parents, i + 1, Len(parents)),
                 compounds, k - 1)

\* match_selectors: the element matches compound k, and what the
\* combinator asks of its parent (">") or of its ancestors (" ") holds of
\* compound k-1.  parents is Tag.parents: the ancestors of e within the
\* document, the nearest first
RECURSIVE match_selectors(_, _, _, _)
match_selectors(e, parents, compounds, k) ==
    /\ match_compound(e, compounds[k].sel)
    /\ \/ k = 1
       \/ /\ compounds[k].rel = ">"
          /\ parents # <<>>
          /\ match_selectors(parents[1], Tail(parents), compounds, k - 1)
       \/ /\ compounds[k].rel = " "
          /\ \E i \in 1..Len(parents) :
                match_selectors(parents[i],
                                SubSeq(parents, i + 1, Len(parents)),
                                compounds, k - 1)

\* the elements below e that match, in document order; parents holds e and
\* its ancestors within the document
RECURSIVE select_below(_, _, _)
select_below(e, parents, compounds) ==
    Flatten([i \in 1..Len(e.contents) |->
        (IF match_selectors(e.contents[i], parents, compounds,
                            Len(compounds))
         THEN <<e.contents[i]>> ELSE <<>>)
        \o select_below(e.contents[i], <<e.contents[i]>> \o parents,
                        compounds)])

\* soup.select(selector): the descendants that match, in document order
select(page, selector) ==
    select_below(page, <<>>, Compounds(Words(selector), " "))

----------------------------------------------------------------------------
(* examples/02_css_selectors.py *)

\* select_by_tag that returns the first match only
select_by_tag_first(page, tag) == Prefix(select(page, tag), 1)

\* select_by_tag(soup, tag)
select_by_tag(page, tag) == select(page, tag)

\* select_by_id(soup, element_id)
select_by_id(page, element_id) ==
    LET result == select(page, <<"#">> \o element_id)
    IN  IF result # <<>> THEN result[1] ELSE None

\* select_nested_elements(soup, parent, child)
select_nested_elements(page, parent, child) ==
    select(page, parent \o <<" ">> \o child)

\* select_direct_children(soup, parent, child)
select_direct_children(page, parent, child) ==
    select(page, parent \o <<" ", ">", " ">> \o child)

----------------------------------------------------------------------------
(* The pages with a body.  The markup of a body is its blocks in document   *)
(* order, each with the elements it holds.                                  *)

\* the most blocks a body has
MaxBlocks == 2

\* the greatest limit find_all is called with
MaxLimit == 3

El(name, attrs, string, contents) ==
    [name |-> name, attrs |-> attrs, string |-> string,
     contents |-> contents]

s_intro == <<"i", "n", "t", "r", "o">>

BlockSamples ==
    { El("p", NoAttrs, <<"a">>, <<>>),
      El("div", NoAttrs, <<>>, <<El("p", NoAttrs, <<"b">>, <<>>)>>),
      El("div", NoAttrs, <<>>,
         <<El("section", NoAttrs, <<>>,
              <<El("p", NoAttrs, <<"c">>, <<>>)>>),
           El("p", NoAttrs, <<"d">>, <<>>)>>),
      El("section", "id" :> s_intro, <<>>,
         <<El("h2", NoAttrs, <<"I">>, <<>>),
           El("p", NoAttrs, <<"e">>, <<>>)>>),
      El("div", "id" :> s_intro, <<>>,
         <<El("div", NoAttrs, <<>>,
              <<El("p", NoAttrs, <<"f">>,
                   <<El("a", NoAttrs, <<"g">>, <<>>)>>)>>)>>),
      El("section", NoAttrs, <<>>,
         <<El("div", NoAttrs, <<>>, <<>>),
           El("p", NoAttrs, <<>>, <<>>)>>) }

\* the markups of n blocks
BlockMarkups(n) == [1..n -> BlockSamples]

\* the element of a piece of markup, with its children, placed in the
\* document at the given position
RECURSIVE ParseBlock(_, _)
ParseBlock(src, pos) ==
    Tag(src.name, src.attrs, src.string,
        [j \in 1..Len(src.contents) |->
            ParseBlock(src.contents[j], pos \o <<j>>)],
        pos)

\* BeautifulSoup(markup, 'lxml') of a page with an empty head and a body
ParseBodyPage(src) ==
    Tag("[document]", NoAttrs, <<>>,
        <<Tag("html", NoAttrs, <<>>,
              <<Tag("head", NoAttrs, <<>>, <<>>, <<1>>),
                Tag("body", NoAttrs, <<>>,
                    [i \in 1..Len(src) |-> ParseBlock(src[i], <<2, i>>)],
                    <<2>>)>>,
              <<0>>)>>,
        <<-1>>)

\* the tag names the examples query with, and one in upper case
TagNames ==
    { <<"p">>, <<"d", "i", "v">>, <<"s", "e", "c", "t", "i", "o", "n">>,
      <<"P">> }

\* the names of the elements that hold others, and of those they hold
Containers == { <<"d", "i", "v">>, <<"s", "e", "c", "t", "i", "o", "n">> }

Contained == { <<"p">>, <<"d", "i", "v">> }

\* the ids the examples query with
ElementIds == { s_intro, <<"s", "o", "c", "i", "a", "l">> }

----------------------------------------------------------------------------
(* examples/01_basic_scraping.py *)

\* extract_title(soup)
extract_title(page) ==
    IF page # None
    THEN IF Find(page, "title") # None
         THEN Text(Find(page, "title")) ELSE NoneStr
    ELSE NoneStr

----------------------------------------------------------------------------
(* The program: the queries on a page with a head or with a body *)

\* soup = BeautifulSoup(...) of a page with a head
ScrapeHeadPage ==
    /\ soup = None
    /\ \E n \in 0..MaxMetas :
         \E src \in HeadMarkups(n) : soup' = ParseHeadPage(src)
    /\ op' = "BeautifulSoup"
    /\ arg' = None
    /\ ret' = None
    /\ UNCHANGED fetchvars

\* soup = BeautifulSoup(...) of a page with a body
ScrapeBodyPage ==
    /\ soup = None
    /\ \E n \in 0..MaxBlocks :
         \E src \in BlockMarkups(n) : soup' = ParseBodyPage(src)
    /\ op' = "BeautifulSoup"
    /\ arg' = None
    /\ ret' = None
    /\ UNCHANGED fetchvars

\* title = extract_title(soup)
ExtractTitle ==
    /\ soup # None
    /\ ret' = extract_title(soup)
    /\ op' = "extract_title"
    /\ arg' = None
    /\ UNCHANGED soup
    /\ UNCHANGED fetchvars

\* metadata = extract_metadata(soup)
ExtractMetadata ==
    /\ soup # None
    /\ ret' = extract_metadata(soup)
    /\ op' = "extract_metadata"
    /\ arg' = None
    /\ UNCHANGED soup
    /\ UNCHANGED fetchvars

\* soup.find_all(name)
DemoFindAll ==
    /\ soup # None
    /\ \E name \in TagNames :
         /\ arg' = name
         /\ ret' = find_all(soup, name)
    /\ op' = "find_all"
    /\ UNCHANGED soup
    /\ UNCHANGED fetchvars

\* soup.find_all(name, limit=limit)
DemoFindAllLimit ==
    /\ soup # None
    /\ \E name \in Contained, limit \in 0..MaxLimit :
         /\ arg' = <<name, limit>>
         /\ ret' = find_all_limit(soup, name, limit)
    /\ op' = "find_all_limit"
    /\ UNCHANGED soup
    /\ UNCHANGED fetchvars

\* select_by_tag(soup, tag)
SelectByTag ==
    /\ soup # None
    /\ \E tag \in TagNames :
         /\ arg' = tag
         /\ ret' = select_by_tag(soup, tag)
    /\ op' = "select_by_tag"
    /\ UNCHANGED soup
    /\ UNCHANGED fetchvars

\* select_by_id(soup, element_id)
SelectById ==
    /\ soup # None
    /\ \E element_id \in ElementIds :
         /\ arg' = element_id
         /\ ret' = select_by_id(soup, element_id)
    /\ op' = "select_by_id"
    /\ UNCHANGED soup
    /\ UNCHANGED fetchvars

\* select_nested_elements(soup, parent, child)
SelectNestedElements ==
    /\ soup # None
    /\ \E parent \in Containers, child \in Contained :
         /\ arg' = <<parent, child>>
         /\ ret' = select_nested_elements(soup, parent, child)
    /\ op' = "select_nested_elements"
    /\ UNCHANGED soup
    /\ UNCHANGED fetchvars

\* select_direct_children(soup, parent, child)
SelectDirectChildren ==
    /\ soup # None
    /\ \E parent \in Containers, child \in Contained :
         /\ arg' = <<parent, child>>
         /\ ret' = select_direct_children(soup, parent, child)
    /\ op' = "select_direct_children"
    /\ UNCHANGED soup
    /\ UNCHANGED fetchvars

NextQueries ==
    \/ ScrapeHeadPage
    \/ ScrapeBodyPage
    \/ ExtractTitle
    \/ ExtractMetadata
    \/ DemoFindAll
    \/ DemoFindAllLimit
    \/ SelectByTag
    \/ SelectById
    \/ SelectNestedElements
    \/ SelectDirectChildren

SpecQueries == Init /\ [][NextQueries]_vars

----------------------------------------------------------------------------
(* What the claims speak of, stated on the tree of the page with a head *)

\* the fields extract_metadata fills from the meta elements
MetaFields == {"description", "keywords", "author"}

FieldName(f) ==
    CASE f = "description" -> s_description
      [] f = "keywords" -> s_keywords
      [] f = "author" -> s_author

\* the value of an attribute as written, <<>> when it is not written
Attr(e, key) == IF key \in DOMAIN e.attrs THEN e.attrs[key] ELSE <<>>

\* s and t are equal but for the case of their letters
SameButCase(s, t) ==
    /\ Len(s) = Len(t)
    /\ \A i \in 1..Len(s) :
         \/ s[i] = t[i]
         \/ \E k \in 1..26 : {s[i], t[i]} = {Lowercase[k], Uppercase[k]}

\* a meta element matches a field when its name is the field's name but for
\* case; it matches description when its property is og:description too
MatchesField(m, f) ==
    \/ SameButCase(Attr(m, "name"), FieldName(f))
    \/ f = "description" /\ Attr(m, "property") = s_og_description

\* the value of a field: the content of the last of the given meta elements,
\* absent when there is none
LastContent(ms) ==
    IF ms = <<>> THEN NoneStr ELSE Attr(ms[Len(ms)], "content")

\* C11 as stated: each field of the extracted metadata is the content of the
\* last meta element, in document order, that matches the field, and is
\* absent exactly when no meta element matches it.
C11_LastMatchWins ==
    op = "extract_metadata" =>
        \A f \in MetaFields :
            ret[f] = LastContent(SelectSeq(Elements("meta"),
                                           LAMBDA m : MatchesField(m, f)))

\* a meta element counts for description when its name or its property says
\* so, in whatever case; it counts for keywords or author only when it does
\* not count for description
CountsFor(m, f) ==
    LET forDescription ==
            \/ SameButCase(Attr(m, "name"), s_description)
            \/ SameButCase(Attr(m, "property"), s_og_description)
    IN  IF f = "description" THEN forDescription
        ELSE ~forDescription /\ SameButCase(Attr(m, "name"), FieldName(f))

\* C11 amended: each field of the extracted metadata is the content of the
\* last meta element, in document order, that counts for the field, and is
\* absent exactly when no meta element counts for it.
C11_LastCountedWins ==
    op = "extract_metadata" =>
        \A f \in MetaFields :
            ret[f] = LastContent(SelectSeq(Elements("meta"),
                                           LAMBDA m : CountsFor(m, f)))

\* two meta elements name the author, in different case, and the second
\* one's content is the author extracted
C11_Witness ==
    /\ op = "extract_metadata"
    /\ Len(Elements("meta")) = 2
    /\ Attr(Elements("meta")[1], "name") = s_author
    /\ Attr(Elements("meta")[2], "name") = <<"A", "u", "t", "h", "o", "r">>
    /\ ret.author = <<"y">>
    /\ ret.description = NoneStr

----------------------------------------------------------------------------
(* What the claims speak of, stated on the tree of the page with a body *)

\* the elements below e whose tag name is T, in document order
RECURSIVE NamedBelow(_, _)
NamedBelow(e, T) ==
    Flatten([i \in 1..Len(e.contents) |->
        (IF TagName(e.contents[i]) = T THEN <<e.contents[i]>> ELSE <<>>)
        \o NamedBelow(e.contents[i], T)])

\* T has no upper-case letter
IsLowerCase(T) ==
    \A i \in 1..Len(T) : \A k \in 1..26 : T[i] # Uppercase[k]

\* C12 as stated: for every tag name T, find_all(T) and select(T) both
\* return every element of the document whose tag name is T, so the two
\* results have the same length.
C12_SameElements ==
    op \in {"find_all", "select_by_tag"} => ret = NamedBelow(soup, arg)

\* C12 amended: for every tag name T in lower case, find_all(T) and
\* select(T) both return every element of the document whose tag name is T,
\* so the two results have the same length.
C12_SameElementsLowerCase ==
    (op \in {"find_all", "select_by_tag"} /\ IsLowerCase(arg)) =>
        ret = NamedBelow(soup, arg)

\* select("p") has returned the three p elements of a page
C12_Witness ==
    /\ op = "select_by_tag"
    /\ arg = <<"p">>
    /\ Len(ret) = 3
    /\ ret = NamedBelow(soup, <<"p">>)

\* the first n elements of s, all of s when it has fewer
FirstN(s, n) == [i \in 1..(IF n < Len(s) THEN n ELSE Len(s)) |-> s[i]]

\* C13 as stated: find_all(T, limit=k) with k >= 0, k = 0 included, returns
\* the first min(k, total) elements named T in document order; with the
\* limit left out it returns all of them.
C13_LimitIsPrefix ==
    /\ op = "find_all_limit" =>
          ret = FirstN(NamedBelow(soup, arg[1]), arg[2])
    /\ op = "find_all" => ret = NamedBelow(soup, arg)

\* C13 amended: find_all(T, limit=k) with k >= 1 returns the first
\* min(k, total) elements named T in document order; with k = 0, as with
\* the limit left out, it returns all of them.
C13_PositiveLimitIsPrefix ==
    /\ (op = "find_all_limit" /\ arg[2] >= 1) =>
          ret = FirstN(NamedBelow(soup, arg[1]), arg[2])
    /\ (op = "find_all_limit" /\ arg[2] = 0) =>
          ret = NamedBelow(soup, arg[1])
    /\ op = "find_all" => ret = NamedBelow(soup, arg)

\* find_all("p", limit=2) has returned the first two of three p elements
C13_Witness ==
    /\ op = "find_all_limit"
    /\ arg = <<(<<"p">>), 2>>
    /\ Len(NamedBelow(soup, <<"p">>)) = 3
    /\ ret = <<NamedBelow(soup, <<"p">>)[1], NamedBelow(soup, <<"p">>)[2]>>

\* the elements below e named C whose parent is named P, in document order
RECURSIVE ChildrenNamed(_, _, _)
ChildrenNamed(e, P, C) ==
    Flatten([i \in 1..Len(e.contents) |->
        (IF TagName(e) = P /\ TagName(e.contents[i]) = C
         THEN <<e.contents[i]>> ELSE <<>>)
        \o ChildrenNamed(e.contents[i], P, C)])

\* the elements below e named C that have an ancestor named P, in document
\* order; under says that e is below an element named P
RECURSIVE DescendantsNamed(_, _, _, _)
DescendantsNamed(e, under, P, C) ==
    Flatten([i \in 1..Len(e.contents) |->
        (IF (under \/ TagName(e) = P) /\ TagName(e.contents[i]) = C
         THEN <<e.contents[i]>> ELSE <<>>)
        \o DescendantsNamed(e.contents[i], under \/ TagName(e) = P, P, C)])

\* no element is twice in s
NoDuplicates(s) == \A i, j \in 1..Len(s) : i # j => s[i] # s[j]

\* C14: select("P > C") returns the elements named C whose parent is named
\* P, select("P C") those with an ancestor named P at any depth, each
\* without duplicates and in document order; every element of the first is
\* in the second.
C14_ChildAndDescendant ==
    /\ op = "select_direct_children" =>
          /\ ret = ChildrenNamed(soup, arg[1], arg[2])
          /\ NoDuplicates(ret)
          /\ \A i \in 1..Len(ret) :
                \E j \in 1..Len(select_nested_elements(soup, arg[1], arg[2])) :
                    select_nested_elements(soup, arg[1], arg[2])[j] = ret[i]
    /\ op = "select_nested_elements" =>
          /\ ret = DescendantsNamed(soup, FALSE, arg[1], arg[2])
          /\ NoDuplicates(ret)

\* on <div><section><p>c</p></section><p>d</p></div>, select("div > p")
\* has returned the second p only, and select("div p") returns both
C14_Witness ==
    /\ op = "select_direct_children"
    /\ arg = <<(<<"d", "i", "v">>), (<<"p">>)>>
    /\ Len(NamedBelow(soup, <<"d", "i", "v">>)) = 1
    /\ Len(NamedBelow(soup, <<"s", "e", "c", "t", "i", "o", "n">>)) = 1
    /\ Len(ret) = 1
    /\ ret[1].string = <<"d">>
    /\ Len(select_nested_elements(soup, <<"d", "i", "v">>, <<"p">>)) = 2

----------------------------------------------------------------------------
(* What the claims speak of, stated on every page *)

\* the empty or absent results the extraction operations give when what
\* they look for is missing: no title, no element with the id, a table
\* without rows
C15_AbsentWhenMissing ==
    /\ (op = "extract_title" /\ Elements("title") = <<>>) => ret = NoneStr
    /\ (op = "extract_metadata" /\ Elements("title") = <<>>) =>
          ret.title = NoneStr
    /\ (op = "select_by_id"
        /\ \A i \in 1..Len(Descendants(soup)) :
              Attr(Descendants(soup)[i], "id") # arg) => ret = None
    /\ (op = "extract_table_data" /\ Elements("tr") = <<>>) =>
          ret = [headers |-> <<>>, rows |-> <<>>]

\* C15: an extraction operation applied to a parsed page whose target is
\* missing or malformed returns empty or absent, and never raises an
\* exception.
C15_NeverRaises ==
    /\ C15_AbsentWhenMissing
    /\ op \in {"extract_all_links", "extract_all_images"} =>
          ret # ValueError

----------------------------------------------------------------------------
(* examples/01_basic_scraping.py: the paragraphs and the headings *)

\* extract_all_paragraphs(soup)
extract_all_paragraphs(page) ==
    IF page # None
    THEN LET paragraphs ==
                 SelectSeq(find_all(page, <<"p">>),
                           LAMBDA p : Strip(Text(p)) # <<>>)
         IN  [i \in 1..Len(paragraphs) |-> Strip(Text(paragraphs[i]))]
    ELSE <<>>

\* extract_all_headings(soup): a dict from 'h1' .. 'h6' to the texts of the
\* headings of that level, without the levels that have none
extract_all_headings(page) ==
    IF page # None
    THEN LET heading_tags(i) == find_all(page, <<"h">> \o IntToStr(i))
         IN  [key \in {<<"h">> \o IntToStr(i) :
                          i \in {l \in 1..6 : heading_tags(l) # <<>>}} |->
                 [k \in 1..Len(find_all(page, key)) |->
                     Strip(Text(find_all(page, key)[k]))]]
    ELSE <<>>

----------------------------------------------------------------------------
(* The program: every query and extraction on one page, in any order *)

\* the most items the markup of a page queried by every operation has
MaxShared == 1

\* soup = BeautifulSoup(...) of a page with a table, with anchors and
\* images, with a head or with a body
ScrapeSharedPage ==
    /\ soup = None
    /\ \E n \in 0..MaxShared :
         \/ \E src \in TableMarkups(n) : soup' = ParseTablePage(src)
         \/ \E src \in LinkMarkups(n) : soup' = ParseLinkPage(src)
         \/ \E src \in HeadMarkups(n) : soup' = ParseHeadPage(src)
         \/ \E src \in BlockMarkups(n) : soup' = ParseBodyPage(src)
    /\ op' = "BeautifulSoup"
    /\ arg' = None
    /\ ret' = None
    /\ UNCHANGED fetchvars

\* paragraphs = extract_all_paragraphs(soup)
ExtractAllParagraphs ==
    /\ soup # None
    /\ ret' = extract_all_paragraphs(soup)
    /\ op' = "extract_all_paragraphs"
    /\ arg' = None
    /\ UNCHANGED soup
    /\ UNCHANGED fetchvars

\* headings = extract_all_headings(soup)
ExtractAllHeadings ==
    /\ soup # None
    /\ ret' = extract_all_headings(soup)
    /\ op' = "extract_all_headings"
    /\ arg' = None
    /\ UNCHANGED soup
    /\ UNCHANGED fetchvars

NextFrame ==
    \/ ScrapeSharedPage
    \/ ExtractTitle
    \/ ExtractAllParagraphs
    \/ ExtractAllHeadings
    \/ DemoFindAll
    \/ DemoFindAllLimit
    \/ SelectByTag
    \/ SelectById
    \/ SelectNestedElements
    \/ SelectDirectChildren
    \/ ExtractAllLinks
    \/ ExtractAllImages
    \/ CategorizeLinks
    \/ ExtractTableData
    \/ TableToDictList
    \/ ExtractMetadata

SpecFrame == Init /\ [][NextFrame]_vars

----------------------------------------------------------------------------
(* requests, as the fetch functions use it.  The network answers an attempt *)
(* of a request with an error (the connection fails, the time runs out) or  *)
(* with a response that has a status.  A call that lets an exception out    *)
(* has the exception as its value.                                          *)

Answer(error, status) == [error |-> error, status |-> status]

\* what the network answers to one attempt
Answers ==
    { Answer("", 200), Answer("", 300), Answer("", 404), Answer("", 503),
      Answer("ConnectionError", 0), Answer("Timeout", 0) }

\* an except clause that catches HTTPError only
RequestException_http_only == {"HTTPError"}

\* requests.exceptions.RequestException: the exceptions "except
\* requests.exceptions.RequestException" catches
RequestException ==
    {"RequestException", "HTTPError", "ConnectionError", "Timeout",
     "RetryError"}

\* the value of a call that lets the exception out
Propagated(exception) == [exception |-> exception]

\* Retry(total=3, ...)
total == 3

\* Retry(..., status_forcelist=[429, 500, 502, 503, 504], ...)
status_forcelist == {429, 500, 502, 503, 504}

\* an answer after which the adapter tries again while retries are left
Retried(answer) == answer.error # "" \/ answer.status \in status_forcelist

\* the answers to the attempts of requests.get: one attempt, no retry
SingleHistories == { <<answer>> : answer \in Answers }

\* the answers to the attempts of a get of the session with retries: every
\* answer but the last is retried, and the last is not retried or is the
\* answer to attempt total + 1
Histories ==
    { h \in UNION { [1..k -> Answers] : k \in 1..(total + 1) } :
        /\ \A k \in 1..(Len(h) - 1) : Retried(h[k])
        /\ Len(h) = total + 1 \/ ~Retried(h[Len(h)]) }

\* what get returns or raises
Response(status) == [raised |-> "", status |-> status]

Raised(exception) == [raised |-> exception, status |-> 0]

\* requests.get(url, timeout=10)
get(h) ==
    IF h[1].error # "" THEN Raised(h[1].error) ELSE Response(h[1].status)

\* session.get(url, headers=headers, timeout=10) of the session of
\* create_session_with_retries: the adapter tries again after an error or a
\* status of status_forcelist, and raises when no retry is left
RECURSIVE session_get(_, _)
session_get(h, retries) ==
    IF Head(h).error # ""
    THEN IF retries = 0 THEN Raised(Head(h).error)
         ELSE session_get(Tail(h), retries - 1)
    ELSE IF Head(h).status \in status_forcelist
    THEN IF retries = 0 THEN Raised("RetryError")
         ELSE session_get(Tail(h), retries - 1)
    ELSE Response(Head(h).status)

\* the page the site serves at the URL: its title is the URL
Document(url) == ParseHeadPage(<<Title(url)>>)

\* session.cookies.get_dict() after the site has answered
Cookies(url) == "session" :> url

\* the try block of a fetch function after get: response.raise_for_status()
\* raises HTTPError for a status from 400 to 599, BeautifulSoup parses the
\* content, and "except requests.exceptions.RequestException" returns None
try_fetch(url, response) ==
    LET exception ==
            IF response.raised # "" THEN response.raised
            ELSE IF 400 <= response.status /\ response.status < 600
            THEN "HTTPError"
            ELSE ""
    IN  IF exception = "" THEN Document(url)
        ELSE IF exception \in RequestException THEN None
        ELSE Propagated(exception)

\* examples/01_basic_scraping.py: scrape_basic_html(url)
scrape_basic_html(url, h) == try_fetch(url, get(h))

\* examples/02_css_selectors.py: scrape_with_css_selectors(url)
scrape_with_css_selectors(url, h) == try_fetch(url, get(h))

\* examples/03_links_and_images.py, examples/04_table_scraping.py:
\* scrape_page(url)
scrape_page(url, h) == try_fetch(url, get(h))

\* examples/05_advanced_techniques.py: scrape_with_custom_headers(url)
scrape_with_custom_headers(url, h) == try_fetch(url, session_get(h, total))

\* examples/05_advanced_techniques.py: scrape_with_session(url), the tuple
\* it returns as the record of its parts
scrape_with_session(url, h) ==
    IF try_fetch(url, get(h)) = None
    THEN [soup |-> None, cookies |-> None]
    ELSE IF try_fetch(url, get(h)) = Document(url)
    THEN [soup |-> Document(url), cookies |-> Cookies(url)]
    ELSE try_fetch(url, get(h))

----------------------------------------------------------------------------
(* The program: the fetch functions and scrape_with_rate_limiting *)

\* the most URLs scrape_with_rate_limiting is called with
MaxUrls == 2

\* the delays scrape_with_rate_limiting is called with (delay=1)
Delays == {1, 2}

\* soup = scrape_basic_html(url)
ScrapeBasicHtml ==
    /\ pc = "idle"
    /\ \E url \in BaseUrls, h \in SingleHistories :
         /\ arg' = url
         /\ attempts' = h
         /\ ret' = scrape_basic_html(url, h)
    /\ op' = "scrape_basic_html"
    /\ UNCHANGED <<soup, results, log, pc>>

\* soup = scrape_with_css_selectors(url)
ScrapeWithCssSelectors ==
    /\ pc = "idle"
    /\ \E url \in BaseUrls, h \in SingleHistories :
         /\ arg' = url
         /\ attempts' = h
         /\ ret' = scrape_with_css_selectors(url, h)
    /\ op' = "scrape_with_css_selectors"
    /\ UNCHANGED <<soup, results, log, pc>>

\* soup = scrape_page(url)
ScrapePage ==
    /\ pc = "idle"
    /\ \E url \in BaseUrls, h \in SingleHistories :
         /\ arg' = url
         /\ attempts' = h
         /\ ret' = scrape_page(url, h)
    /\ op' = "scrape_page"
    /\ UNCHANGED <<soup, results, log, pc>>

\* soup = scrape_with_custom_headers(url)
ScrapeWithCustomHeaders ==
    /\ pc = "idle"
    /\ \E url \in BaseUrls, h \in Histories :
         /\ arg' = url
         /\ attempts' = h
         /\ ret' = scrape_with_custom_headers(url, h)
    /\ op' = "scrape_with_custom_headers"
    /\ UNCHANGED <<soup, results, log, pc>>

\* soup, cookies = scrape_with_session(url)
ScrapeWithSession ==
    /\ pc = "idle"
    /\ \E url \in BaseUrls, h \in SingleHistories :
         /\ arg' = url
         /\ attempts' = h
         /\ ret' = scrape_with_session(url, h)
    /\ op' = "scrape_with_session"
    /\ UNCHANGED <<soup, results, log, pc>>

\* scrape_with_rate_limiting(urls, delay) is called: results = []
ScrapeWithRateLimiting ==
    /\ op = "start"
    /\ pc = "idle"
    /\ \E n \in 0..MaxUrls :
         \E urls \in [1..n -> BaseUrls], delay \in Delays :
            arg' = <<urls, delay>>
    /\ op' = "scrape_with_rate_limiting"
    /\ results' = <<>>
    /\ log' = <<>>
    /\ pc' = "for"
    /\ UNCHANGED <<soup, ret, attempts>>

\* the body of the loop with a sleep after every fetch
RateLimitingFetchThenSleep ==
    /\ pc = "for"
    /\ Len(results) < Len(arg[1])
    /\ \E h \in Histories :
         LET url == arg[1][Len(results) + 1]
         IN  /\ results' = Append(results, scrape_with_custom_headers(url, h))
             /\ log' = Append(log, [event |-> "fetch", url |-> url,
                                    answer |-> h[Len(h)]])
    /\ pc' = "sleep"
    /\ UNCHANGED <<soup, op, arg, ret, attempts>>

\* the body of the loop for the next url: soup =
\* scrape_with_custom_headers(url), results.append(soup), and the test
\* "if i < len(urls)" that leads to the sleep
RateLimitingFetch ==
    /\ pc = "for"
    /\ Len(results) < Len(arg[1])
    /\ \E h \in Histories :
         LET url == arg[1][Len(results) + 1]
         IN  /\ results' = Append(results, scrape_with_custom_headers(url, h))
             /\ log' = Append(log, [event |-> "fetch", url |-> url,
                                    answer |-> h[Len(h)]])
    /\ pc' = IF Len(results) + 1 < Len(arg[1]) THEN "sleep" ELSE "for"
    /\ UNCHANGED <<soup, op, arg, ret, attempts>>

\* time.sleep(delay)
RateLimitingSleep ==
    /\ pc = "sleep"
    /\ log' = Append(log, [event |-> "sleep", delay |-> arg[2]])
    /\ pc' = "for"
    /\ UNCHANGED <<soup, op, arg, ret, attempts, results>>

\* the loop is over: return results
RateLimitingReturn ==
    /\ pc = "for"
    /\ Len(results) = Len(arg[1])
    /\ ret' = results
    /\ pc' = "done"
    /\ UNCHANGED <<soup, op, arg, attempts, results, log>>

NextFetch ==
    \/ ScrapeBasicHtml
    \/ ScrapeWithCssSelectors
    \/ ScrapePage
    \/ ScrapeWithCustomHeaders
    \/ ScrapeWithSession
    \/ ScrapeWithRateLimiting
    \/ RateLimitingFetch
    \/ RateLimitingSleep
    \/ RateLimitingReturn

SpecFetch == Init /\ [][NextFetch]_vars

----------------------------------------------------------------------------
(* What the claims speak of, stated on the requests and on the log *)

\* the request has succeeded: its last attempt was answered with a response
\* whose status is not an error status (400 to 599)
Succeeded(answer) ==
    answer.error = "" /\ ~(answer.status \in 400..599)

\* the fetches of the log, in the order they were made
Fetches == SelectSeq(log, LAMBDA e : e.event = "fetch")

\* the sleeps of the log
Sleeps == SelectSeq(log, LAMBDA e : e.event = "sleep")

\* C17: scrape_with_rate_limiting fetches the URLs one at a time in list
\* order, sleeps the delay exactly once between two consecutive fetches and
\* never after the last one (n - 1 sleeps for n >= 1 URLs, none for n = 0),
\* and returns exactly n results, result i being the document of URL i, or
\* None when the fetch of URL i failed, which does not stop or reorder the
\* fetches that follow.
C17_RateLimiting ==
    op = "scrape_with_rate_limiting" =>
        /\ Len(Fetches) <= Len(arg[1])
        /\ \A k \in 1..Len(Fetches) : Fetches[k].url = arg[1][k]
        /\ \A j \in 1..Len(log) :
              IF j % 2 = 1 THEN log[j].event = "fetch"
              ELSE log[j].event = "sleep" /\ log[j].delay = arg[2]
        /\ Len(results) = Len(Fetches)
        /\ pc = "sleep" => Len(log) % 2 = 1 /\ Len(Fetches) < Len(arg[1])
        /\ pc = "done" =>
              /\ Len(Fetches) = Len(arg[1])
              /\ Len(Sleeps) = IF arg[1] = <<>> THEN 0 ELSE Len(arg[1]) - 1
              /\ log # <<>> => log[Len(log)].event = "fetch"
              /\ Len(ret) = Len(arg[1])
              /\ \A i \in 1..Len(ret) :
                    IF Succeeded(Fetches[i].answer)
                    THEN ret[i] = Document(arg[1][i])
                    ELSE ret[i] = None

\* two URLs have been fetched with one sleep between them; the first fetch
\* failed and its result is None, the second succeeded
C17_Witness ==
    /\ op = "scrape_with_rate_limiting"
    /\ pc = "done"
    /\ Len(arg[1]) = 2
    /\ arg[1][1] # arg[1][2]
    /\ Len(Sleeps) = 1
    /\ ~Succeeded(Fetches[1].answer)
    /\ ret[1] = None
    /\ ret[2] = Document(arg[1][2])

\* the names of the fetch functions that return the document or None
FetchFunctions ==
    {"scrape_basic_html", "scrape_with_css_selectors", "scrape_page",
     "scrape_with_custom_headers"}

====
